---- MODULE Spec2Model ----
(***************************************************************************)
(* Model of wp4032/stocks: stock_sim_0921.py (windowed ratio calculators,  *)
(* fetch_stock_data, main's loop and ranking) and vpc_sim.py (vpc_screen). *)
(*                                                                         *)
(* Floats are modelled as exact rationals plus the IEEE specials the code  *)
(* tests for: a value is a record [kind, num, den] with kind "num" (the    *)
(* rational num/den in lowest terms, den > 0, or a signed infinity with    *)
(* den = 0), "nan" (np.nan), "none" (Python None, which main writes into   *)
(* the table in place of np.nan) or "exc" (the expression raised).         *)
(***************************************************************************)
EXTENDS Integers, Sequences, FiniteSets, TLC

VARIABLES
    pc,             \* position of the program being run
    provider,       \* what the market-data provider answers (per security, or per call)
    years,          \* calculate_cagr's `years` argument
    ret,            \* a calculator's return value
    data,           \* fetch_stock_data's `data` dict
    tickers,        \* main's `tickers` / vpc_screen's `stocks`
    results,        \* main's / vpc_screen's `results` list
    df,             \* main's `df` after sort_values
    window          \* vpc_screen's `window` argument

vars == <<pc, provider, years, ret, data, tickers, results, df, window>>

----------------------------------------------------------------------------
(* Bounds of the model.                                                    *)

MaxPeriods == 3     \* fiscal periods in a fundamental statement
MaxBars == 4        \* daily bars in a downloaded price series (calculate_cagr)
MaxTickers == 2     \* securities in main's input list
MaxRows == 3        \* daily bars in vpc_screen's download
MaxWindow == 3      \* vpc_screen's window argument

----------------------------------------------------------------------------
(* Floating-point values.                                                  *)

Abs(n) == IF n < 0 THEN -n ELSE n

Sign(n) == IF n < 0 THEN -1 ELSE IF n > 0 THEN 1 ELSE 0

RECURSIVE GCD(_, _)
GCD(a, b) == IF b = 0 THEN a ELSE GCD(b, a % b)

NaN == [kind |-> "nan", num |-> 0, den |-> 1]

None == [kind |-> "none", num |-> 0, den |-> 1]

\* An expression that raised instead of yielding a value
Exc == [kind |-> "exc", num |-> 0, den |-> 1]

\* try: v  except Exception: np.nan
Catch(v) == IF v.kind = "exc" THEN NaN ELSE v

\* The float n/d: lowest terms, positive denominator; x/0 is +-inf, 0/0 is nan.
Frac(n, d) ==
    IF d = 0
    THEN IF n = 0 THEN NaN ELSE [kind |-> "num", num |-> Sign(n), den |-> 0]
    ELSE LET g == GCD(Abs(n), Abs(d))
             s == Sign(d)
         IN  [kind |-> "num", num |-> (s * n) \div g, den |-> (s * d) \div g]

Num(n) == Frac(n, 1)

\* np.isnan
isnan(x) == x.kind = "nan"

\* pandas.isna: np.nan and None are both missing
isna(x) == x.kind \in {"nan", "none"}

\* an operand that raised makes the expression raise
Raises(a, b) == a.kind = "exc" \/ b.kind = "exc"

Add(a, b) ==
    IF Raises(a, b) THEN Exc
    ELSE IF isnan(a) \/ isnan(b) THEN NaN
    ELSE IF a.den = 0 /\ b.den = 0
         THEN IF a.num = b.num THEN a ELSE NaN
         ELSE Frac(a.num * b.den + b.num * a.den, a.den * b.den)

Neg(a) == IF a.kind # "num" THEN a ELSE [a EXCEPT !.num = -a.num]

Sub(a, b) == Add(a, Neg(b))

Mul(a, b) ==
    IF Raises(a, b) THEN Exc
    ELSE IF isnan(a) \/ isnan(b) THEN NaN
    ELSE Frac(a.num * b.num, a.den * b.den)

Div(a, b) ==
    IF Raises(a, b) THEN Exc
    ELSE IF isnan(a) \/ isnan(b) THEN NaN
    ELSE Frac(a.num * b.den, a.den * b.num)

\* x != 0 (true of nan)
NeqZero(x) == isnan(x) \/ x.num # 0

\* x <= 0 (false of nan)
LeZero(x) == ~isnan(x) /\ x.num <= 0

\* a > b and a < b (false when either is nan)
Gt(a, b) == ~isnan(a) /\ ~isnan(b) /\ Sub(a, b).kind = "num" /\ Sub(a, b).num > 0

Lt(a, b) == Gt(b, a)

RECURSIVE SumSeq(_)
SumSeq(s) == IF s = <<>> THEN Num(0) ELSE Add(Head(s), SumSeq(Tail(s)))

\* np.mean of a non-empty list
Mean(s) == Div(SumSeq(s), Num(Len(s)))

Min2(a, b) == IF a <= b THEN a ELSE b

----------------------------------------------------------------------------
(* What the provider (yfinance) answers to a call.                         *)
(*   a statement (stock.income_stmt, stock.balance_sheet):                 *)
(*     [status, cols]: "raise", or "ok" with the frame's columns, one per  *)
(*     fiscal period, most recent first; cols = <<>> is an empty frame. A  *)
(*     column gives each line item's value, NaN when the row is absent or  *)
(*     the cell is empty (.get(label, np.nan) and the `label in index`     *)
(*     test both yield np.nan there);                                      *)
(*   a price download (yf.download): [status, close], the closes in date   *)
(*     order; close = <<>> is an empty frame.                              *)

Raise == [status |-> "raise", cols |-> <<>>]

Frame(cols) == [status |-> "ok", cols |-> cols]

RaiseDl == [status |-> "raise", close |-> <<>>]

Bars(close) == [status |-> "ok", close |-> close]

\* (end_date - start_date).days for a window of y years
WindowDays(y) == y * 365 + y \div 4

\* x ** e for e > 0. The power is irrational in general: outside the exact
\* cases its float value is `approx`, supplied by the caller.
Pow(x, e, approx) ==
    IF isnan(x) \/ isnan(e) THEN NaN
    ELSE IF x = Num(1) THEN Num(1)
    ELSE IF x = Num(0) THEN Num(0)
    ELSE approx

\* lines 12-22: the try body of calculate_cagr, dl being what yf.download answers
cagr_body(dl, y, approx) ==
    IF dl.status = "raise" THEN Exc
    ELSE IF dl.close = <<>> THEN NaN                      \* data.empty
    ELSE IF Len(dl.close) < 3 THEN Exc                    \* iloc[2]: IndexError
    ELSE LET start_price == dl.close[3]
             end_price == dl.close[Len(dl.close)]
             actual_years == Frac(WindowDays(y) * 100, 36525)
         IN  IF LeZero(start_price) \/ LeZero(actual_years) THEN NaN
             ELSE Sub(Pow(Div(end_price, start_price),
                          Div(Num(1), actual_years), approx), Num(1))

\* calculate_cagr without its try
calculate_cagr_uncaught(dl, y, approx) == cagr_body(dl, y, approx)

\* calculate_cagr(ticker, years)
calculate_cagr(dl, y, approx) == Catch(cagr_body(dl, y, approx))

\* lines 39-43: one fiscal year's ROCE
roce_year(icol, bcol) ==
    LET ebit == icol.OperatingIncome
        total_assets == bcol.TotalAssets
        current_liab == bcol.CurrentLiabilities
        capital_employed ==
            IF ~isnan(total_assets) /\ ~isnan(current_liab)
            THEN Sub(total_assets, current_liab) ELSE NaN
    IN  IF ~isnan(ebit) /\ NeqZero(capital_employed)
        THEN Div(ebit, capital_employed) ELSE NaN

\* the columns the loop of calculate_avg_roce indexes: range(available_years)
roce_window(inc, y) == Min2(y, Len(inc.cols))

\* lines 30-47: the try body of calculate_avg_roce
avg_roce_body(inc, bal, y) ==
    IF inc.status = "raise" \/ bal.status = "raise" THEN Exc
    ELSE IF inc.cols = <<>> \/ bal.cols = <<>> THEN NaN
    ELSE LET available_years == roce_window(inc, y)
         IN  IF available_years > Len(bal.cols) THEN Exc   \* balance_sheet.iloc[:, year]: IndexError
             ELSE LET roce_values == [yr \in 1..available_years |->
                                         roce_year(inc.cols[yr], bal.cols[yr])]
                      valid_roce == SelectSeq(roce_values, LAMBDA x : ~isnan(x))
                  IN  IF valid_roce # <<>> THEN Mean(valid_roce) ELSE NaN

\* calculate_avg_roce(ticker, years)
calculate_avg_roce(inc, bal, y) == Catch(avg_roce_body(inc, bal, y))

\* line 65: one fiscal year's cost-of-revenue margin
cogs_year(icol) ==
    LET revenue == icol.TotalRevenue
        cogs == icol.CostOfRevenue
    IN  IF ~isnan(cogs) /\ ~isnan(revenue) /\ NeqZero(revenue)
        THEN Div(cogs, revenue) ELSE NaN

\* lines 55-69: the try body of calculate_avg_cogs_margin
avg_cogs_margin_body(inc, y) ==
    IF inc.status = "raise" THEN Exc
    ELSE IF inc.cols = <<>> THEN NaN
    ELSE LET available_years == Min2(y, Len(inc.cols))
             cogs_margin_values == [yr \in 1..available_years |-> cogs_year(inc.cols[yr])]
             valid_cogs_margin == SelectSeq(cogs_margin_values, LAMBDA x : ~isnan(x))
         IN  IF valid_cogs_margin # <<>> THEN Mean(valid_cogs_margin) ELSE NaN

\* calculate_avg_cogs_margin(ticker, years)
calculate_avg_cogs_margin(inc, y) == Catch(avg_cogs_margin_body(inc, y))

\* line 87 without the test of total_equity against zero
de_year_unguarded(bcol) ==
    LET total_debt == bcol.TotalDebt
        total_equity == bcol.StockholdersEquity
    IN  IF ~isnan(total_debt) /\ ~isnan(total_equity)
        THEN Div(total_debt, total_equity) ELSE NaN

\* line 87: one fiscal year's Debt/Equity
de_year(bcol) ==
    LET total_debt == bcol.TotalDebt
        total_equity == bcol.StockholdersEquity
    IN  IF ~isnan(total_debt) /\ ~isnan(total_equity) /\ NeqZero(total_equity)
        THEN Div(total_debt, total_equity) ELSE NaN

\* lines 77-91: the try body of calculate_avg_debt_equity
avg_debt_equity_body(bal, y) ==
    IF bal.status = "raise" THEN Exc
    ELSE IF bal.cols = <<>> THEN NaN
    ELSE LET available_years == Min2(y, Len(bal.cols))
             de_values == [yr \in 1..available_years |-> de_year(bal.cols[yr])]
             valid_de == SelectSeq(de_values, LAMBDA x : ~isnan(x))
         IN  IF valid_de # <<>> THEN Mean(valid_de) ELSE NaN

\* calculate_avg_debt_equity(ticker, years)
calculate_avg_debt_equity(bal, y) == Catch(avg_debt_equity_body(bal, y))

\* calculate_beta(ticker, years). b is what the two downloads and the
\* regression come to: [status, stock_empty, market_empty, aligned, slope],
\* aligned the number of dates with a return in both series and slope what
\* stats.linregress answers for them.
beta_body(b) ==
    IF b.status = "raise" THEN Exc
    ELSE IF b.stock_empty \/ b.market_empty THEN NaN
    ELSE IF b.aligned < 2 THEN NaN
    ELSE b.slope

calculate_beta(b) == Catch(beta_body(b))

----------------------------------------------------------------------------
(* fetch_stock_data. The provider p of one security is a record            *)
(*   download      [w \in {10,5,3,1} -> price download] for calculate_cagr *)
(*   approx        [w \in {10,5,3,1} -> value] the floats of the powers    *)
(*   beta          [w \in {5,3,1} -> outcome of calculate_beta's calls]    *)
(*   income_stmt, balance_sheet   statements                               *)
(*   info          [status, beta, grossMargins, operatingMargins,          *)
(*                  profitMargins], NaN for a key stock.info lacks         *)
(*   faulty        the call sites at which the provider raises instead     *)

CallSites ==
    {"cagr10", "cagr5", "cagr3", "cagr1", "ttm_income", "ttm_balance",
     "roce5_income", "roce5_balance", "roce3_income", "roce3_balance",
     "roce1_income", "roce1_balance", "info_beta", "beta5", "beta3", "beta1",
     "info_margins", "cogs5", "cogs3", "cogs1", "de5", "de3", "de1"}

\* the endpoint a call site reads
Endpoint(p, site) ==
    CASE site = "cagr10" -> p.download[10]
      [] site = "cagr5" -> p.download[5]
      [] site = "cagr3" -> p.download[3]
      [] site = "cagr1" -> p.download[1]
      [] site = "beta5" -> p.beta[5]
      [] site = "beta3" -> p.beta[3]
      [] site = "beta1" -> p.beta[1]
      [] site \in {"ttm_income", "roce5_income", "roce3_income", "roce1_income",
                   "cogs5", "cogs3", "cogs1"} -> p.income_stmt
      [] site \in {"ttm_balance", "roce5_balance", "roce3_balance", "roce1_balance",
                   "de5", "de3", "de1"} -> p.balance_sheet
      [] site \in {"info_beta", "info_margins"} -> p.info

\* the provider's answer to the call at `site`
Call(p, site) ==
    IF site \in p.faulty THEN [Endpoint(p, site) EXCEPT !.status = "raise"]
    ELSE Endpoint(p, site)

\* the composite blending whatever windows are available
Compound_partial(v5, v3, v1) ==
    LET z(v) == IF isnan(v) THEN Num(0) ELSE v
    IN  IF isnan(v5) /\ isnan(v3) /\ isnan(v1) THEN NaN
        ELSE Add(Add(Mul(z(v5), Frac(2, 10)), Mul(z(v3), Frac(3, 10))), Mul(z(v1), Frac(5, 10)))

\* lines 133-137 (and 158-162, 172-176, 192-196, 208-212): the composite
Compound(v5, v3, v1) ==
    IF v5.kind = "exc" \/ v3.kind = "exc" \/ v1.kind = "exc" THEN Exc
    ELSE IF ~(isnan(v5) \/ isnan(v3) \/ isnan(v1))
    THEN Add(Add(Mul(v5, Frac(2, 10)), Mul(v3, Frac(3, 10))), Mul(v1, Frac(5, 10)))
    ELSE NaN

\* lines 141-150: the try body that sets data['ROCE'], income_stmt and
\* balance_sheet being the answers to its two calls
roce_ttm_body(income_stmt, balance_sheet) ==
    IF income_stmt.status = "raise" \/ balance_sheet.status = "raise" THEN Exc
    ELSE IF income_stmt.cols # <<>> /\ balance_sheet.cols # <<>>
    THEN LET ebit == income_stmt.cols[1].OperatingIncome
             total_assets == balance_sheet.cols[1].TotalAssets
             current_liab == balance_sheet.cols[1].CurrentLiabilities
             capital_employed ==
                 IF ~isnan(total_assets) /\ ~isnan(current_liab)
                 THEN Sub(total_assets, current_liab) ELSE NaN
         IN  IF ~isnan(ebit) /\ NeqZero(capital_employed)
             THEN Div(ebit, capital_employed) ELSE NaN
    ELSE NaN

\* lines 140-152: data['ROCE']
roce_ttm(income_stmt, balance_sheet) == Catch(roce_ttm_body(income_stmt, balance_sheet))

\* Whether the local `balance_sheet` of fetch_stock_data is bound after the
\* try block of lines 140-152: line 142 assigns it, and is not reached when
\* line 141 raises.
balance_sheet_bound(income_stmt, balance_sheet) ==
    income_stmt.status # "raise" /\ balance_sheet.status # "raise"

\* lines 200-202: the try body that sets data['Debt_Equity'], read from the
\* local `balance_sheet`. An empty frame has no 'Total Debt' row to divide.
de_ttm_body(income_stmt, balance_sheet) ==
    IF ~balance_sheet_bound(income_stmt, balance_sheet) THEN Exc   \* NameError
    ELSE IF balance_sheet.cols = <<>> THEN NaN
    ELSE LET total_debt == balance_sheet.cols[1].TotalDebt
             total_equity == balance_sheet.cols[1].StockholdersEquity
         IN  IF ~isnan(total_debt) /\ NeqZero(total_equity)
             THEN Div(total_debt, total_equity) ELSE NaN

\* lines 200-202 without the try around them
de_ttm_uncaught(income_stmt, balance_sheet) == de_ttm_body(income_stmt, balance_sheet)

\* lines 199-204: data['Debt_Equity']
de_ttm(income_stmt, balance_sheet) == Catch(de_ttm_body(income_stmt, balance_sheet))

\* lines 166 and 180-182: stock.info.get(key, np.nan)
info_get_body(info, key) == IF info.status = "raise" THEN Exc ELSE info[key]

\* lines 165-168 and 179-186: a key of stock.info, under try
info_get(info, key) == Catch(info_get_body(info, key))

fetch_stock_data(p) ==
    LET income_stmt == Call(p, "ttm_income")
        balance_sheet == Call(p, "ttm_balance")
        margins == Call(p, "info_margins")
        CAGR_10Y == calculate_cagr(Call(p, "cagr10"), 10, p.approx[10])
        CAGR_5Y == calculate_cagr(Call(p, "cagr5"), 5, p.approx[5])
        CAGR_3Y == calculate_cagr(Call(p, "cagr3"), 3, p.approx[3])
        CAGR_1Y == calculate_cagr(Call(p, "cagr1"), 1, p.approx[1])
        ROCE_5Y == calculate_avg_roce(Call(p, "roce5_income"), Call(p, "roce5_balance"), 5)
        ROCE_3Y == calculate_avg_roce(Call(p, "roce3_income"), Call(p, "roce3_balance"), 3)
        ROCE_1Y == calculate_avg_roce(Call(p, "roce1_income"), Call(p, "roce1_balance"), 1)
        Beta_5Y == calculate_beta(Call(p, "beta5"))
        Beta_3Y == calculate_beta(Call(p, "beta3"))
        Beta_1Y == calculate_beta(Call(p, "beta1"))
        COGS_Margin_5Y == calculate_avg_cogs_margin(Call(p, "cogs5"), 5)
        COGS_Margin_3Y == calculate_avg_cogs_margin(Call(p, "cogs3"), 3)
        COGS_Margin_1Y == calculate_avg_cogs_margin(Call(p, "cogs1"), 1)
        Debt_Equity_5Y == calculate_avg_debt_equity(Call(p, "de5"), 5)
        Debt_Equity_3Y == calculate_avg_debt_equity(Call(p, "de3"), 3)
        Debt_Equity_1Y == calculate_avg_debt_equity(Call(p, "de1"), 1)
    IN  [CAGR_10Y |-> CAGR_10Y,
         CAGR_5Y |-> CAGR_5Y,
         CAGR_3Y |-> CAGR_3Y,
         CAGR_1Y |-> CAGR_1Y,
         CAGR_Compound |-> Compound(CAGR_5Y, CAGR_3Y, CAGR_1Y),
         ROCE |-> roce_ttm(income_stmt, balance_sheet),
         ROCE_5Y |-> ROCE_5Y,
         ROCE_3Y |-> ROCE_3Y,
         ROCE_1Y |-> ROCE_1Y,
         ROCE_Compound |-> Compound(ROCE_5Y, ROCE_3Y, ROCE_1Y),
         Beta |-> info_get(Call(p, "info_beta"), "beta"),
         Beta_5Y |-> Beta_5Y,
         Beta_3Y |-> Beta_3Y,
         Beta_1Y |-> Beta_1Y,
         Beta_Compound |-> Compound(Beta_5Y, Beta_3Y, Beta_1Y),
         Gross_Margin |-> info_get(margins, "grossMargins"),
         Operating_Margin |-> info_get(margins, "operatingMargins"),
         Net_Margin |-> info_get(margins, "profitMargins"),
         COGS_Margin_5Y |-> COGS_Margin_5Y,
         COGS_Margin_3Y |-> COGS_Margin_3Y,
         COGS_Margin_1Y |-> COGS_Margin_1Y,
         COGS_Margin_Compound |-> Compound(COGS_Margin_5Y, COGS_Margin_3Y, COGS_Margin_1Y),
         Debt_Equity |-> de_ttm(income_stmt, balance_sheet),
         Debt_Equity_5Y |-> Debt_Equity_5Y,
         Debt_Equity_3Y |-> Debt_Equity_3Y,
         Debt_Equity_1Y |-> Debt_Equity_1Y,
         Debt_Equity_Compound |-> Compound(Debt_Equity_5Y, Debt_Equity_3Y, Debt_Equity_1Y)]

\* an exception left fetch_stock_data instead of a dict
Raised(d) == \E k \in DOMAIN d : d[k].kind = "exc"

----------------------------------------------------------------------------
(* main: the loop of lines 224-229 and the ranking of lines 243-244.       *)

Columns ==
    {"CAGR_10Y", "CAGR_5Y", "CAGR_3Y", "CAGR_1Y", "CAGR_Compound",
     "ROCE", "ROCE_5Y", "ROCE_3Y", "ROCE_1Y", "ROCE_Compound",
     "Gross_Margin", "Operating_Margin", "Net_Margin",
     "COGS_Margin_5Y", "COGS_Margin_3Y", "COGS_Margin_1Y", "COGS_Margin_Compound",
     "Debt_Equity", "Debt_Equity_5Y", "Debt_Equity_3Y", "Debt_Equity_1Y",
     "Debt_Equity_Compound", "Beta", "Beta_5Y", "Beta_3Y", "Beta_1Y", "Beta_Compound"}

\* line 243: df.fillna(np.nan).replace(np.nan, None), on one row
replace_nan(row) ==
    [k \in DOMAIN row |-> IF k \in Columns /\ isnan(row[k]) THEN None ELSE row[k]]

Reverse(s) == [k \in 1..Len(s) |-> s[Len(s) + 1 - k]]

\* idx[mask] from position k on: the indices, in order, at which mask holds
RECURSIVE Where(_, _)
Where(mask, k) ==
    IF k > Len(mask) THEN <<>>
    ELSE (IF mask[k] THEN <<k>> ELSE <<>>) \o Where(mask, k + 1)

\* nargsort's mask = isna(items), and its complement
na_mask(items) == [k \in 1..Len(items) |-> isna(items[k])]

not_na_mask(items) == [k \in 1..Len(items) |-> ~isna(items[k])]

\* ndarray.argsort(kind='quicksort') of values without nan: the orders that
\* sort them ascending. numpy's quicksort is not a stable sort, so equal
\* values may come out in any order.
argsort(items) ==
    {pi \in [1..Len(items) -> 1..Len(items)] :
        /\ \A i, j \in 1..Len(items) : i # j => pi[i] # pi[j]
        /\ \A i \in 1..(Len(items) - 1) : ~Gt(items[pi[i]], items[pi[i + 1]])}

\* nargsort without the final indexer[::-1]: ascending order
nargsort_no_flip(items, pi) ==
    LET non_nan_idx == Reverse(Where(not_na_mask(items), 1))
        nan_idx == Where(na_mask(items), 1)
        indexer == [k \in 1..Len(pi) |-> non_nan_idx[pi[k]]]
    IN  indexer \o nan_idx

\* nargsort taking the missing rows in reversed order too
nargsort_nan_flipped(items, pi) ==
    LET non_nan_idx == Reverse(Where(not_na_mask(items), 1))
        nan_idx == Reverse(Where(na_mask(items), 1))
        indexer == Reverse([k \in 1..Len(pi) |-> non_nan_idx[pi[k]]])
    IN  indexer \o nan_idx

\* pandas nargsort(items, kind='quicksort', ascending=False, na_position='last'),
\* given the argsort pi of the reversed non-missing values
nargsort(items, pi) ==
    LET non_nan_idx == Reverse(Where(not_na_mask(items), 1))
        nan_idx == Where(na_mask(items), 1)
        indexer == Reverse([k \in 1..Len(pi) |-> non_nan_idx[pi[k]]])
    IN  indexer \o nan_idx

\* the values nargsort hands to argsort: the non-missing ones, reversed
non_nans(items) ==
    LET non_nan_idx == Reverse(Where(not_na_mask(items), 1))
    IN  [k \in 1..Len(non_nan_idx) |-> items[non_nan_idx[k]]]

\* line 244: df.sort_values(by='CAGR_Compound', ascending=False), every
\* table it may leave
sort_values(rows) ==
    LET items == [k \in 1..Len(rows) |-> rows[k].CAGR_Compound]
    IN  {[k \in 1..Len(rows) |-> rows[nargsort(items, pi)[k]]] : pi \in argsort(non_nans(items))}

----------------------------------------------------------------------------
(* Providers the specifications draw from.                                 *)

IncomeCol(ebit, revenue, cogs) ==
    [OperatingIncome |-> ebit, TotalRevenue |-> revenue, CostOfRevenue |-> cogs]

BalanceCol(assets, liab, debt, equity) ==
    [TotalAssets |-> assets, CurrentLiabilities |-> liab,
     TotalDebt |-> debt, StockholdersEquity |-> equity]

Windows == {5, 3, 1}

CagrWindows == {10, 5, 3, 1}

BetaOk(slope) ==
    [status |-> "ok", stock_empty |-> FALSE, market_empty |-> FALSE,
     aligned |-> 2, slope |-> slope]

InfoOf(status, v) ==
    [status |-> status, beta |-> v, grossMargins |-> v,
     operatingMargins |-> v, profitMargins |-> v]

\* a security the provider knows: four bars a window, one fiscal period
HealthyProvider(g) ==
    [download |-> [w \in CagrWindows |-> Bars(<<Num(1), Num(1), Num(1), Num(2)>>)],
     approx |-> [w \in CagrWindows |-> g],
     beta |-> [w \in Windows |-> BetaOk(Num(1))],
     income_stmt |-> Frame(<<IncomeCol(Num(1), Num(2), Num(1))>>),
     balance_sheet |-> Frame(<<BalanceCol(Num(2), Num(1), Num(1), Num(2))>>),
     info |-> InfoOf("ok", Num(1)),
     faulty |-> {}]

\* a security for which every provider call raises
BrokenProvider == [HealthyProvider(Num(2)) EXCEPT !.faulty = CallSites]

\* a security for which every provider call returns empty data
EmptyProvider ==
    [download |-> [w \in CagrWindows |-> Bars(<<>>)],
     approx |-> [w \in CagrWindows |-> Num(2)],
     beta |-> [w \in Windows |-> [BetaOk(Num(1)) EXCEPT !.stock_empty = TRUE]],
     income_stmt |-> Frame(<<>>),
     balance_sheet |-> Frame(<<>>),
     info |-> InfoOf("ok", NaN),
     faulty |-> {}]

\* the provider call's answer is a failure: it raised or came back empty
Failed(a) ==
    \/ a.status = "raise"
    \/ "cols" \in DOMAIN a /\ a.cols = <<>>
    \/ "close" \in DOMAIN a /\ a.close = <<>>
    \/ "aligned" \in DOMAIN a /\ (a.stock_empty \/ a.market_empty)
    \/ "beta" \in DOMAIN a /\ \A k \in DOMAIN a \ {"status"} : isnan(a[k])

AllCallsFail(p) == \A site \in CallSites : Failed(Call(p, site))

\* failure patterns of main's providers: none, any single call, every call
FaultPatterns == {{}} \cup {{site} : site \in CallSites} \cup {CallSites}

MainApprox == {Num(2), Num(3)}

MainProviders ==
    {EmptyProvider} \cup {HealthyProvider(g) : g \in MainApprox} \cup
    {[HealthyProvider(Num(2)) EXCEPT !.faulty = f] : f \in FaultPatterns}

\* fetch_stock_data on each of main's providers: what it returned, and of
\* the provider whether every call failed and at which sites it raised
MainRuns ==
    {[failed |-> AllCallsFail(p), faulty |-> p.faulty, d |-> fetch_stock_data(p)] :
        p \in MainProviders}

Symbols == <<"AAA", "BBB", "CCC", "DDD", "EEE">>

----------------------------------------------------------------------------
(* SpecMain: main() over an input list of up to MaxTickers securities.     *)

InitMain ==
    /\ pc = "loop"
    /\ \E n \in 0..MaxTickers : tickers = SubSeq(Symbols, 1, n)
    /\ results = <<>>
    /\ provider = <<>>
    /\ df = <<>>
    /\ years = 0 /\ ret = NaN /\ data = <<>> /\ window = 0

\* one iteration of the loop of lines 225-229
MainFetch ==
    /\ pc = "loop"
    /\ Len(results) < Len(tickers)
    /\ \E run \in MainRuns :
          LET ticker == tickers[Len(results) + 1]
          IN  IF Raised(run.d)
              THEN pc' = "crashed" /\ UNCHANGED <<results, provider>>
              ELSE /\ results' = Append(results, [Ticker |-> ticker] @@ run.d)
                   /\ provider' = Append(provider, [run EXCEPT !.d = <<>>])
                   /\ pc' = pc
    /\ UNCHANGED <<years, ret, data, tickers, df, window>>

\* lines 232-244: the frame, None for np.nan, and the ranking
MainRank ==
    /\ pc = "loop"
    /\ Len(results) = Len(tickers)
    /\ df' \in sort_values([k \in 1..Len(results) |-> replace_nan(results[k])])
    /\ pc' = "done"
    /\ UNCHANGED <<provider, years, ret, data, tickers, results, window>>

NextMain == MainFetch \/ MainRank

SpecMain == InitMain /\ [][NextMain]_vars

\* the place of a ticker in the input list
Pos(t) == CHOOSE i \in 1..Len(tickers) : tickers[i] = t

\* a row of the table is the record r, unavailable for unavailable
SameRecord(r, row) ==
    /\ row.Ticker = r.Ticker
    /\ \A k \in Columns : IF isnan(r[k]) THEN isna(row[k]) ELSE row[k] = r[k]

\* a >= b for two available values
Geq(a, b) == a.num * b.den >= b.num * a.den

(* C2: after the ranking step the table is a permutation of the records,   *)
(* every record with an unavailable Growth-Rate composite comes after      *)
(* every record with an available one, and the available ones are in       *)
(* non-increasing order of the composite.                                  *)
C2_Ranking ==
    pc = "done" =>
        /\ Len(df) = Len(results)
        /\ \A i \in 1..Len(results) :
              Cardinality({j \in 1..Len(df) : SameRecord(results[i], df[j])}) = 1
        /\ \A i, j \in 1..Len(df) :
              i < j /\ isna(df[i].CAGR_Compound) => isna(df[j].CAGR_Compound)
        /\ \A i, j \in 1..Len(df) :
              i < j /\ ~isna(df[i].CAGR_Compound) /\ ~isna(df[j].CAGR_Compound)
                  => Geq(df[i].CAGR_Compound, df[j].CAGR_Compound)

\* the ranking moved a record with a composite ahead of an earlier security
\* without one, and ahead of an earlier security with a smaller one
C2_Witness ==
    /\ pc = "done"
    /\ Len(df) = MaxTickers
    /\ isnan(results[1].CAGR_Compound)
    /\ \E i \in 2..Len(results) : results[i].CAGR_Compound = Num(2)
    /\ df[1].Ticker # tickers[1]
    /\ df[Len(df)].Ticker = tickers[1]

AllUnavailable(r) == \A k \in Columns : isnan(r[k])

(* C4: whatever the provider's failures, the loop appends one record per   *)
(* input security in input order, no failure leaves fetch_stock_data, a    *)
(* security whose calls all fail gets a record with every field            *)
(* unavailable, and the securities after it are processed.                 *)
C4_OneRecordEach ==
    /\ pc \in {"loop", "done"}
    /\ Len(results) <= Len(tickers)
    /\ Len(provider) = Len(results)
    /\ \A i \in 1..Len(results) :
          /\ results[i].Ticker = tickers[i]
          /\ DOMAIN results[i] = Columns \cup {"Ticker"}
          /\ provider[i].failed => AllUnavailable(results[i])
    /\ pc = "loop" /\ Len(results) < Len(tickers) => ENABLED MainFetch
    /\ pc = "done" => Len(results) = Len(tickers)

\* the first security's calls all failed, a later one's did not and it has
\* its composite; in between (when there is room) one call raised
C4_Witness ==
    /\ pc = "done"
    /\ Len(results) = MaxTickers
    /\ provider[1].failed /\ AllUnavailable(results[1])
    /\ ~provider[Len(results)].failed
    /\ ~isnan(results[Len(results)].CAGR_Compound)
    /\ isnan(results[Len(results)].Debt_Equity)
    /\ provider[Len(results)].faulty = {"ttm_income"}

----------------------------------------------------------------------------
(* SpecCagr: calculate_cagr on one download.                               *)

\* sequences over S of length at most n
SeqUpTo(S, n) == UNION {[1..k -> S] : k \in 0..n}

Closes == {NaN, Num(-1), Num(0), Num(1), Num(2)}

CagrYears == CagrWindows \cup {0}

Approxes == {Num(2), Frac(1, 2)}

InitCagr ==
    /\ pc = "call"
    /\ \E close \in SeqUpTo(Closes, MaxBars), status \in {"ok", "raise"}, a \in Approxes :
          provider = [status |-> status, close |-> close, approx |-> a]
    /\ years \in CagrYears
    /\ ret = NaN
    /\ data = <<>> /\ tickers = <<>> /\ results = <<>> /\ df = <<>> /\ window = 0

CallCagr ==
    /\ pc = "call"
    /\ ret' = calculate_cagr(provider, years, provider.approx)
    /\ pc' = IF ret'.kind = "exc" THEN "crashed" ELSE "done"
    /\ UNCHANGED <<provider, years, data, tickers, results, df, window>>

NextCagr == CallCagr

SpecCagr == InitCagr /\ [][NextCagr]_vars

(* C8: calculate_cagr returns unavailable and raises nothing when the      *)
(* series is empty or has fewer than three bars, the start price (the      *)
(* close at index 2) is <= 0, or the elapsed time is <= 0; the windows of  *)
(* 1, 3, 5 and 10 years are positive, so with three bars, a positive start *)
(* price and an end price the result is available.                         *)
C8_Cagr ==
    /\ pc # "crashed"
    /\ pc = "done" =>
          LET n == Len(provider.close)
              days == years * 365 + years \div 4
          IN  /\ provider.status = "raise" => ret = NaN
              /\ n < 3 => ret = NaN
              /\ n >= 3 /\ provider.close[3].kind = "num" /\ provider.close[3].num <= 0
                    => ret = NaN
              /\ days <= 0 => ret = NaN
              /\ years \in {1, 3, 5, 10} => days > 0
              /\ /\ years \in {1, 3, 5, 10}
                 /\ provider.status = "ok"
                 /\ n >= 3
                 /\ provider.close[3].kind = "num" /\ provider.close[3].num > 0
                 /\ provider.close[n].kind = "num"
                 => ret.kind = "num" /\ ret.den > 0

\* a download of one or two bars: no close at index 2, and NaN came back
C8_Witness ==
    /\ pc = "done"
    /\ provider.status = "ok"
    /\ Len(provider.close) \in {1, 2}
    /\ provider.close[1] = Num(1)
    /\ years = 1
    /\ ret = NaN

----------------------------------------------------------------------------
(* SpecFetch: fetch_stock_data on one security, every call to an endpoint  *)
(* getting the same answer. The providers vary one thing at a time: the    *)
(* price downloads, the beta calls, or the line items of one ratio.        *)

Downloads == {RaiseDl, Bars(<<>>), Bars(<<Num(1), Num(1)>>),
              Bars(<<Num(1), Num(1), Num(1), Num(2)>>)}

\* the price downloads vary, window by window
PriceProviders(p) ==
    \E dl \in [Windows -> Downloads], a \in [Windows -> {Num(2), Num(3)}] :
        p = [HealthyProvider(Num(2)) EXCEPT
                !.download = [w \in CagrWindows |-> dl[IF w = 10 THEN 5 ELSE w]],
                !.approx = [w \in CagrWindows |-> a[IF w = 10 THEN 5 ELSE w]]]

BetaCalls ==
    {[BetaOk(Num(1)) EXCEPT !.status = "raise"],
     [BetaOk(Num(1)) EXCEPT !.stock_empty = TRUE],
     [BetaOk(Num(1)) EXCEPT !.market_empty = TRUE],
     [BetaOk(Num(1)) EXCEPT !.aligned = 1],
     BetaOk(Num(1)), BetaOk(Num(2)), BetaOk(NaN)}

\* the beta calls vary, window by window
BetaProviders(p) ==
    \E b \in [Windows -> BetaCalls] : p = [HealthyProvider(Num(2)) EXCEPT !.beta = b]

Statements(cols) == {Raise} \cup {Frame(c) : c \in SeqUpTo(cols, MaxPeriods)}

FewStatements(col) == {Raise, Frame(<<>>), Frame(<<col>>)}

RoceIncome == {IncomeCol(e, NaN, NaN) : e \in {NaN, Num(1), Num(2)}}

RoceBalance ==
    {BalanceCol(NaN, Num(1), NaN, NaN), BalanceCol(Num(2), NaN, NaN, NaN),
     BalanceCol(Num(1), Num(1), NaN, NaN), BalanceCol(Num(2), Num(1), NaN, NaN)}

CogsIncome ==
    {IncomeCol(NaN, NaN, Num(1)), IncomeCol(NaN, Num(2), NaN),
     IncomeCol(NaN, Num(0), Num(1)), IncomeCol(NaN, Num(2), Num(1)),
     IncomeCol(NaN, Num(1), Num(1))}

DeBalance ==
    {BalanceCol(NaN, NaN, NaN, Num(1)), BalanceCol(NaN, NaN, Num(2), NaN),
     BalanceCol(NaN, NaN, Num(1), Num(0)), BalanceCol(NaN, NaN, Num(1), Num(2)),
     BalanceCol(NaN, NaN, Num(1), Num(1))}

\* the statements vary: the line items of ROCE, of the cost-of-revenue
\* margin, or of Debt/Equity
WithStatements(p, incomes, balances) ==
    \E i \in incomes, b \in balances :
        p = [HealthyProvider(Num(2)) EXCEPT !.income_stmt = i, !.balance_sheet = b]

FundProviders(p) ==
    \/ WithStatements(p, Statements(RoceIncome), Statements(RoceBalance))
    \/ WithStatements(p, Statements(CogsIncome),
                      FewStatements(BalanceCol(Num(2), Num(1), Num(1), Num(2))))
    \/ WithStatements(p, FewStatements(IncomeCol(Num(1), Num(2), Num(1))),
                      Statements(DeBalance))

InitFetch ==
    /\ pc = "call"
    /\ \/ PriceProviders(provider)
       \/ BetaProviders(provider)
       \/ FundProviders(provider)
    /\ data = <<>>
    /\ years = 0 /\ ret = NaN /\ tickers = <<>> /\ results = <<>> /\ df = <<>> /\ window = 0

Fetch ==
    /\ pc = "call"
    /\ data' = fetch_stock_data(provider)
    /\ pc' = IF Raised(data') THEN "crashed" ELSE "done"
    /\ UNCHANGED <<provider, years, ret, tickers, results, df, window>>

NextFetch == Fetch

SpecFetch == InitFetch /\ [][NextFetch]_vars

\* the blended metrics: composite, 1Y, 3Y and 5Y keys
Blended ==
    {<<"CAGR_Compound", "CAGR_1Y", "CAGR_3Y", "CAGR_5Y">>,
     <<"ROCE_Compound", "ROCE_1Y", "ROCE_3Y", "ROCE_5Y">>,
     <<"Beta_Compound", "Beta_1Y", "Beta_3Y", "Beta_5Y">>,
     <<"COGS_Margin_Compound", "COGS_Margin_1Y", "COGS_Margin_3Y", "COGS_Margin_5Y">>,
     <<"Debt_Equity_Compound", "Debt_Equity_1Y", "Debt_Equity_3Y", "Debt_Equity_5Y">>}

\* c = 0.5*v1 + 0.3*v3 + 0.2*v5, in integers
IsBlend(c, v1, v3, v5) ==
    /\ c.kind = "num" /\ c.den > 0
    /\ c.num * 10 * v1.den * v3.den * v5.den
         = c.den * (5 * v1.num * v3.den * v5.den + 3 * v3.num * v1.den * v5.den
                    + 2 * v5.num * v1.den * v3.den)

(* C1: for each blended metric the composite is unavailable exactly when   *)
(* one of its 1Y, 3Y, 5Y values is, and is 0.5*v1Y + 0.3*v3Y + 0.2*v5Y     *)
(* when all three are available.                                           *)
C1_Composite ==
    pc = "done" =>
        \A b \in Blended :
            LET c == data[b[1]]
                v1 == data[b[2]]
                v3 == data[b[3]]
                v5 == data[b[4]]
            IN  /\ isnan(c) <=> (isnan(v1) \/ isnan(v3) \/ isnan(v5))
                /\ ~isnan(c) => IsBlend(c, v1, v3, v5)

\* the 1Y growth rate is unavailable and the 3Y and 5Y ones differ: no
\* composite; the three ROCE values are there: a composite
C1_Witness ==
    /\ pc = "done"
    /\ isnan(data.CAGR_1Y) /\ data.CAGR_3Y = Num(1) /\ data.CAGR_5Y = Num(2)
    /\ isnan(data.CAGR_Compound)
    /\ ~isnan(data.ROCE_Compound)

\* three different window values, blended
C1_WitnessBlend ==
    /\ pc = "done"
    /\ data.CAGR_1Y = Num(1) /\ data.CAGR_3Y = Num(2) /\ data.CAGR_5Y = Num(1)
    /\ data.CAGR_Compound = Frac(13, 10)

\* the line item is missing
Missing(x) == x.kind # "num"

\* a fiscal period with no ROCE: an input missing, or capital employed zero
RoceDegenerate(icol, bcol) ==
    \/ Missing(icol.OperatingIncome)
    \/ Missing(bcol.TotalAssets)
    \/ Missing(bcol.CurrentLiabilities)
    \/ bcol.TotalAssets.num * bcol.CurrentLiabilities.den
           = bcol.CurrentLiabilities.num * bcol.TotalAssets.den

CogsDegenerate(icol) ==
    Missing(icol.CostOfRevenue) \/ Missing(icol.TotalRevenue) \/ icol.TotalRevenue.num = 0

DeDegenerate(bcol) ==
    Missing(bcol.TotalDebt) \/ Missing(bcol.StockholdersEquity)
        \/ bcol.StockholdersEquity.num = 0

\* the statements of the security, as every call gets them
Inc == provider.income_stmt.cols

Bal == provider.balance_sheet.cols

(* C7: a per-year ratio is unavailable, never 0 and never an exception,    *)
(* when a line item it needs is missing or its denominator is zero: the    *)
(* per-year values of the three windowed calculators, and the TTM ROCE and *)
(* TTM Debt/Equity points (with them the 1Y windows, which hold one year). *)
C7_Degenerate ==
    /\ pc # "crashed"
    /\ \A yi \in 1..Len(Inc), yb \in 1..Len(Bal) :
          RoceDegenerate(Inc[yi], Bal[yb]) => roce_year(Inc[yi], Bal[yb]) = NaN
    /\ \A yi \in 1..Len(Inc) : CogsDegenerate(Inc[yi]) => cogs_year(Inc[yi]) = NaN
    /\ \A yb \in 1..Len(Bal) : DeDegenerate(Bal[yb]) => de_year(Bal[yb]) = NaN
    /\ pc = "done" =>
          /\ Len(Inc) > 0 /\ Len(Bal) > 0 /\ RoceDegenerate(Inc[1], Bal[1])
                => data.ROCE = NaN /\ data.ROCE_1Y = NaN
          /\ Len(Inc) > 0 /\ CogsDegenerate(Inc[1]) => data.COGS_Margin_1Y = NaN
          /\ Len(Bal) > 0 /\ DeDegenerate(Bal[1])
                => data.Debt_Equity = NaN /\ data.Debt_Equity_1Y = NaN
          /\ \A w \in Windows :
                /\ Len(Bal) > 0 /\ (\A yb \in 1..Min2(w, Len(Bal)) : DeDegenerate(Bal[yb]))
                      => data[IF w = 5 THEN "Debt_Equity_5Y"
                              ELSE IF w = 3 THEN "Debt_Equity_3Y" ELSE "Debt_Equity_1Y"] = NaN
                /\ Len(Inc) > 0 /\ (\A yi \in 1..Min2(w, Len(Inc)) : CogsDegenerate(Inc[yi]))
                      => data[IF w = 5 THEN "COGS_Margin_5Y"
                              ELSE IF w = 3 THEN "COGS_Margin_3Y" ELSE "COGS_Margin_1Y"] = NaN

\* debt 1 over equity 0 in the latest period, 1 over 2 the year before: no
\* TTM and no 1Y value, and a 3Y mean of the one good year
C7_Witness ==
    /\ pc = "done"
    /\ provider.income_stmt.status = "ok"
    /\ Len(Bal) = 2
    /\ Bal[1].TotalDebt = Num(1) /\ Bal[1].StockholdersEquity = Num(0)
    /\ Bal[2].TotalDebt = Num(1) /\ Bal[2].StockholdersEquity = Num(2)
    /\ data.Debt_Equity = NaN /\ data.Debt_Equity_1Y = NaN
    /\ data.Debt_Equity_3Y = Frac(1, 2)

\* the mean of the available values of a window, unavailable without any
WindowMean(vals) ==
    LET avail == SelectSeq(vals, LAMBDA x : x.kind = "num")
    IN  IF avail = <<>> THEN NaN ELSE Div(SumSeq(avail), Num(Len(avail)))

\* the per-year values a window of w years spans, by the claim's words
RoceYears(w) ==
    [yr \in 1..Min2(w, Len(Inc)) |->
        IF yr > Len(Bal) \/ RoceDegenerate(Inc[yr], Bal[yr]) THEN NaN
        ELSE Div(Inc[yr].OperatingIncome,
                 Sub(Bal[yr].TotalAssets, Bal[yr].CurrentLiabilities))]

CogsYears(w) ==
    [yr \in 1..Min2(w, Len(Inc)) |->
        IF CogsDegenerate(Inc[yr]) THEN NaN
        ELSE Div(Inc[yr].CostOfRevenue, Inc[yr].TotalRevenue)]

DeYears(w) ==
    [yr \in 1..Min2(w, Len(Bal)) |->
        IF DeDegenerate(Bal[yr]) THEN NaN
        ELSE Div(Bal[yr].TotalDebt, Bal[yr].StockholdersEquity)]

Key(metric, w) ==
    CASE metric = "ROCE" -> (IF w = 5 THEN "ROCE_5Y" ELSE IF w = 3 THEN "ROCE_3Y" ELSE "ROCE_1Y")
      [] metric = "COGS" -> (IF w = 5 THEN "COGS_Margin_5Y"
                             ELSE IF w = 3 THEN "COGS_Margin_3Y" ELSE "COGS_Margin_1Y")
      [] metric = "DE" -> (IF w = 5 THEN "Debt_Equity_5Y"
                           ELSE IF w = 3 THEN "Debt_Equity_3Y" ELSE "Debt_Equity_1Y")

BothRetrieved ==
    provider.income_stmt.status = "ok" /\ provider.balance_sheet.status = "ok"

(* C5 as claimed: the windowed ROCE, cost-of-revenue margin and Debt/Equity *)
(* are the mean of the available per-year values among the min(years,       *)
(* number of periods) most recent periods, unavailable years left out of    *)
(* the sum and the count.                                                   *)
C5_WindowMean ==
    pc = "done" =>
        \A w \in Windows :
            /\ BothRetrieved => data[Key("ROCE", w)] = WindowMean(RoceYears(w))
            /\ provider.income_stmt.status = "ok"
                  => data[Key("COGS", w)] = WindowMean(CogsYears(w))
            /\ provider.balance_sheet.status = "ok"
                  => data[Key("DE", w)] = WindowMean(DeYears(w))

(* C5 where it holds: the same, for ROCE only when the balance sheet has a  *)
(* period for every income-statement period of the window.                  *)
C5_WindowMeanCovered ==
    pc = "done" =>
        \A w \in Windows :
            /\ BothRetrieved /\ Len(Bal) >= Min2(w, Len(Inc))
                  => data[Key("ROCE", w)] = WindowMean(RoceYears(w))
            /\ provider.income_stmt.status = "ok"
                  => data[Key("COGS", w)] = WindowMean(CogsYears(w))
            /\ provider.balance_sheet.status = "ok"
                  => data[Key("DE", w)] = WindowMean(DeYears(w))

(* C6 as claimed: windowed ROCE is available as soon as one period of the   *)
(* window has operating income, total assets and current liabilities and a  *)
(* nonzero capital employed, whatever the lengths of the two statements.    *)
C6_RoceAvailable ==
    pc = "done" =>
        \A w \in Windows :
            (/\ BothRetrieved
             /\ \E yr \in 1..Min2(w, Len(Inc)) :
                   yr <= Len(Bal) /\ ~RoceDegenerate(Inc[yr], Bal[yr]))
                => ~isnan(data[Key("ROCE", w)])

(* C9 as claimed: the TTM points agree with the 1-year windows, 'ROCE' with *)
(* 'ROCE_1Y' and 'Debt_Equity' with 'Debt_Equity_1Y', whatever each         *)
(* statement call comes to.                                                 *)
C9_TtmIsOneYear ==
    pc = "done" =>
        /\ data.ROCE = data.ROCE_1Y
        /\ data.Debt_Equity = data.Debt_Equity_1Y

(* C9 where it holds: 'ROCE' agrees with 'ROCE_1Y'; 'Debt_Equity' agrees    *)
(* with 'Debt_Equity_1Y' when the income statement was retrieved.           *)
C9_TtmIsOneYearRetrieved ==
    pc = "done" =>
        /\ data.ROCE = data.ROCE_1Y
        /\ provider.income_stmt.status = "ok" => data.Debt_Equity = data.Debt_Equity_1Y

----------------------------------------------------------------------------
(* SpecVpc: vpc_screen(stocks, window=window) of vpc_sim.py. What          *)
(* yf.download answers is [status, close, volume], the two columns in date *)
(* order and of one length.                                                *)

\* s.iloc[-w:]: the last w elements, all of s when it is shorter
LastRows(s, w) == SubSeq(s, IF Len(s) > w THEN Len(s) - w + 1 ELSE 1, Len(s))

\* ndarray.max() and .min(): nan when any element is nan
npmax(s) ==
    IF \E k \in 1..Len(s) : isnan(s[k]) THEN NaN
    ELSE CHOOSE x \in {s[k] : k \in 1..Len(s)} : \A k \in 1..Len(s) : ~Gt(s[k], x)

npmin(s) ==
    IF \E k \in 1..Len(s) : isnan(s[k]) THEN NaN
    ELSE CHOOSE x \in {s[k] : k \in 1..Len(s)} : \A k \in 1..Len(s) : ~Lt(s[k], x)

\* the high of the closes before the latest one
resistance_prior(closes) ==
    IF Len(closes) < 2 THEN NaN ELSE npmax(SubSeq(closes, 1, Len(closes) - 1))

\* line 26: resistance, and line 27: support
resistance(closes) == npmax(closes)

support(closes) == npmin(closes)

\* lines 17-40: the row of one ticker whose download is not empty
vpc_row(ticker, dl, w) ==
    LET volumes == LastRows(dl.volume, w)
        closes == LastRows(dl.close, w)
        avg_volume == Div(SumSeq(volumes), Num(w))
        latest_vpc == Div(volumes[Len(volumes)], avg_volume)
        latest == closes[Len(closes)]
        breakout == Gt(latest, resistance(closes)) /\ Gt(latest_vpc, Frac(15, 10))
        breakdown == Lt(latest, support(closes)) /\ Gt(latest_vpc, Frac(15, 10))
    IN  [Ticker |-> ticker, Close |-> latest, Volume |-> volumes[Len(volumes)],
         VPC |-> latest_vpc, Breakout |-> breakout, Breakdown |-> breakdown]

\* what one iteration of the loop came to: the provider's answer in short
\* (status "raise", "empty" or "ok", and the window's high and low), and the
\* row appended, if any
vpc_iteration(dl, w) ==
    IF dl.status = "raise" THEN [status |-> "raise", high |-> NaN, low |-> NaN, row |-> <<>>]
    ELSE IF dl.close = <<>> THEN [status |-> "empty", high |-> NaN, low |-> NaN, row |-> <<>>]
    ELSE [status |-> "ok", high |-> npmax(LastRows(dl.close, w)),
          low |-> npmin(LastRows(dl.close, w)), row |-> <<vpc_row("", dl, w)>>]

VpcBars ==
    {[close |-> Num(1), volume |-> Num(1)], [close |-> Num(2), volume |-> Num(1)],
     [close |-> Num(2), volume |-> Num(4)], [close |-> Num(1), volume |-> Num(0)],
     [close |-> NaN, volume |-> Num(1)]}

VpcDownload(bars) ==
    [status |-> "ok", close |-> [k \in 1..Len(bars) |-> bars[k].close],
     volume |-> [k \in 1..Len(bars) |-> bars[k].volume]]

\* the iterations the downloads of up to MaxRows bars come to, per window
VpcIterations ==
    [w \in 1..MaxWindow |->
        {vpc_iteration(VpcDownload(bars), w) : bars \in SeqUpTo(VpcBars, MaxRows)}
        \cup {vpc_iteration([VpcDownload(<<>>) EXCEPT !.status = "raise"], w)}]

InitVpc ==
    /\ pc = "loop"
    /\ \E n \in 0..MaxTickers : tickers = SubSeq(Symbols, 1, n)
    /\ window \in 1..MaxWindow
    /\ results = <<>>
    /\ provider = <<>>
    /\ df = <<>>
    /\ years = 0 /\ ret = NaN /\ data = <<>>

\* lines 9-40, the download not empty: a row is appended
VpcRow ==
    /\ pc = "loop"
    /\ Len(provider) < Len(tickers)
    /\ \E it \in VpcIterations[window] :
          /\ it.status = "ok"
          /\ results' = Append(results,
                               [it.row[1] EXCEPT !.Ticker = tickers[Len(provider) + 1]])
          /\ provider' = Append(provider, [it EXCEPT !.row = <<>>])
    /\ UNCHANGED <<pc, years, ret, data, tickers, df, window>>

\* lines 14-15: df.empty, continue
VpcSkip ==
    /\ pc = "loop"
    /\ Len(provider) < Len(tickers)
    /\ \E it \in VpcIterations[window] :
          /\ it.status = "empty"
          /\ provider' = Append(provider, it)
    /\ UNCHANGED <<pc, years, ret, data, tickers, results, df, window>>

\* lines 42-43: the download raised, the error is printed
VpcError ==
    /\ pc = "loop"
    /\ Len(provider) < Len(tickers)
    /\ \E it \in VpcIterations[window] :
          /\ it.status = "raise"
          /\ provider' = Append(provider, it)
    /\ UNCHANGED <<pc, years, ret, data, tickers, results, df, window>>

\* line 45: return pd.DataFrame(results)
VpcReturn ==
    /\ pc = "loop"
    /\ Len(provider) = Len(tickers)
    /\ df' = results
    /\ pc' = "done"
    /\ UNCHANGED <<provider, years, ret, data, tickers, results, window>>

NextVpc == VpcRow \/ VpcSkip \/ VpcError \/ VpcReturn

SpecVpc == InitVpc /\ [][NextVpc]_vars

====
